---- MODULE Spec2Model ----
(***************************************************************************)
(* Model of src/server.js: an Express application with four /api/posts     *)
(* handlers (create, list, update, delete) over one Mongoose model "Post", *)
(* a static root route, and the bootstrap that connects to MongoDB before  *)
(* it listens.                                                             *)
(*                                                                         *)
(* Every handler is an async function with exactly one await.  It is       *)
(* modelled in three steps: the synchronous part up to the await (Start),  *)
(* the storage call taking effect in the collection (Exec, atomic for a    *)
(* single document), and the continuation after the await that writes the  *)
(* response (Respond).  Handlers of different requests interleave freely   *)
(* between these steps.                                                    *)
(*                                                                         *)
(* Library behaviour the handlers rely on (Mongoose 6 and later, the       *)
(* release line whose connect() takes the bare URI as on line 179):        *)
(*   - a String path casts scalars with toString() and rejects plain       *)
(*     objects with a CastError;                                           *)
(*   - `required` on a String path rejects undefined, null and "";         *)
(*   - keys whose value is undefined are removed from an update before it  *)
(*     is sent; update validators run on the remaining $set paths only;    *)
(*   - timestamps are taken from the server process's clock when the       *)
(*     operation is issued, not when the database applies it.              *)
(***************************************************************************)
EXTENDS Integers, Sequences, FiniteSets, Bags, TLC

\* ------------------------------------------------------------------ bounds
MaxPosts == 2      \* documents ever constructed by the create handler
MaxInflight == 2   \* requests concurrently suspended at their await
MaxClock == 1      \* last value of the process clock

\* ------------------------------------------------------- JSON body values
\* A body field is a tagged value; s is the text String(value) yields.
Undef == [t |-> "undef", s |-> ""]
Null == [t |-> "null", s |-> ""]
Str(x) == [t |-> "str", s |-> x]
Num(x) == [t |-> "num", s |-> x]
Obj == [t |-> "obj", s |-> ""]
Anonymous == Str("Anonymous")

\* JavaScript truthiness of a body value (`!title`, `author || ...`).
Falsy(v) == \/ v.t \in {"undef", "null"}
            \/ v.t = "str" /\ v.s = ""
            \/ v.t = "num" /\ v.s = "0"

\* A request body (express.json(), l. 11): the three members the handlers
\* read; a member the body lacks reads as undefined.
Body(title, content, author) ==
  [title |-> title, content |-> content, author |-> author]

\* The bodies the modelled clients send.
Bodies ==
  { Body(Undef, Undef, Undef),            \* {}
    Body(Str("a"), Str("c"), Undef),      \* no author
    Body(Str("b"), Str("d"), Str("e")),   \* all three members
    Body(Str("b"), Undef, Undef),         \* title only
    Body(Undef, Undef, Null),             \* author only, null
    Body(Str(""), Str("c"), Str("e")),    \* empty title
    Body(Str("a"), Null, Str("e")),       \* null content
    Body(Num("7"), Str("c"), Str("")),    \* numeric title, empty author
    Body(Obj, Str("c"), Undef) }          \* title is an object

\* The bodies sent by clients that keep several requests in flight.
ConcBodies ==
  { Body(Str("a"), Str("c"), Undef),      \* no author
    Body(Undef, Undef, Undef),            \* {}
    Body(Str(""), Undef, Str("e")) }      \* empty title, no content

\* Path parameter :id.  Positive numbers stand for well-formed ObjectId
\* strings; BadId for a string that is no ObjectId; GhostId for a well-formed
\* ObjectId that the process never generates.
BadId == 0
GhostId == 99
NoId == -1
ValidObjectId(id) == id > 0

\* ------------------------------------------------------ schema (l. 19-26)
\* SchemaString cast: null/undefined pass through, strings are kept, other
\* scalars become their toString(), plain objects do not cast.
CastFails(v) == v.t = "obj"
castString(v) == IF v.t \in {"undef", "null"} THEN v ELSE Str(v.s)

\* l. 23: default: 'Anonymous' fills a path that was left undefined.
authorDefault(v) == IF v.t = "undef" THEN Anonymous ELSE v

\* `required: true` on a String path.
requiredOk(v) == v.t = "str" /\ v.s # ""

Doc(id, title, content, author, createdAt, updatedAt) ==
  [id |-> id, title |-> title, content |-> content, author |-> author,
   createdAt |-> createdAt, updatedAt |-> updatedAt]
NoDoc == Doc(NoId, Undef, Undef, Undef, 0, 0)

\* ------------------------------------------------------------------ state
VARIABLES
  conn,      \* the promise of mongoose.connect: "pending" | "up" | "failed"
  connects,  \* number of mongoose.connect calls made so far
  listening, \* app.listen has been called
  now,       \* the process clock (Date.now())
  nextId,    \* the next ObjectId the driver generates
  store,     \* the posts collection: id -> document
  inflight,  \* bag of the handlers suspended at their await
  last,      \* the response written by the latest step, if it wrote one
  assigned,  \* ids given to a document so far
  removed,   \* ids whose document the collection has removed
  deletedOk  \* ids for which a DELETE has been answered 200
vars == <<conn, connects, listening, now, nextId, store, inflight, last,
          assigned, removed, deletedOk>>
hist == <<assigned, removed, deletedOk>>
boot == <<conn, connects, listening>>

NoBody == Body(Undef, Undef, Undef)

\* The shape of the state.
TypeOK ==
  /\ conn \in {"pending", "up", "failed"}
  /\ connects \in Nat
  /\ listening \in BOOLEAN
  /\ now \in 0..MaxClock
  /\ nextId \in 1..(MaxPosts + 1)
  /\ DOMAIN store \subseteq 1..MaxPosts
  /\ \A i \in DOMAIN store : store[i].id = i
  /\ IsABag(inflight)
  /\ BagCardinality(inflight) <= MaxInflight
  /\ \A r \in BagToSet(inflight) :
       /\ r.op \in {"POST", "GET", "PUT", "DELETE"}
       /\ r.phase \in {"sent", "settled"}
       /\ r.res \in {"none", "ok", "error"}
  /\ last.op \in {"none", "POST", "GET", "PUT", "DELETE"}
  /\ last.status \in {0, 200, 201, 400, 404, 500}
  /\ assigned \subseteq 1..MaxPosts
  /\ removed \subseteq assigned
  /\ deletedOk \subseteq removed

\* A handler between its storage call and the code after the await.
\* ts is the time an update stamps on the document (unused otherwise).
Req(op, id, body, doc, err, ts) ==
  [op |-> op, id |-> id, body |-> body, doc |-> doc, err |-> err, ts |-> ts,
   phase |-> "sent", res |-> "none", posts |-> <<>>]

\* A response, with the request it answers: res.status(..).json(..).
Resp(op, id, body, status, success, doc, posts, failed) ==
  [op |-> op, id |-> id, body |-> body, status |-> status,
   success |-> success, doc |-> doc, posts |-> posts, failed |-> failed]
NoResp == Resp("none", NoId, NoBody, 0, FALSE, NoDoc, <<>>, FALSE)

Init ==
  /\ conn = "pending"
  /\ connects = 1
  /\ listening = FALSE
  /\ now = 0
  /\ nextId = 1
  /\ store = [i \in {} |-> NoDoc]
  /\ inflight = EmptyBag
  /\ last = NoResp
  /\ assigned = {}
  /\ removed = {}
  /\ deletedOk = {}

\* --------------------------------------------------- bootstrap (l. 175-191)
\* l. 180-188: the .then callback calls app.listen.
ConnectResolved ==
  /\ conn = "pending"
  /\ conn' = "up"
  /\ listening' = TRUE
  /\ last' = NoResp
  /\ UNCHANGED <<connects, now, nextId, store, inflight, hist>>

\* (mutant) the server is started whatever the outcome of connect.
ConnectRejected_Listens ==
  /\ conn = "pending"
  /\ conn' = "failed"
  /\ listening' = TRUE
  /\ last' = NoResp
  /\ UNCHANGED <<connects, now, nextId, store, inflight, hist>>

\* l. 189-191: the .catch callback logs the error and does nothing else.
ConnectRejected ==
  /\ conn = "pending"
  /\ conn' = "failed"
  /\ listening' = FALSE
  /\ last' = NoResp
  /\ UNCHANGED <<connects, now, nextId, store, inflight, hist>>

Tick ==
  /\ now < MaxClock
  /\ now' = now + 1
  /\ last' = NoResp
  /\ UNCHANGED <<boot, nextId, store, inflight, hist>>

\* ------------------------------------------------------- handler plumbing
Pending == BagToSet(inflight)

\* The handler reaches its await with request r.
Suspend(r) ==
  /\ BagCardinality(inflight) < MaxInflight
  /\ inflight' = inflight (+) SetToBag({r})

\* What the driver can report for an operation that was sent: it is applied
\* and acknowledged ("ok"), it never reaches the server ("down"), or it is
\* applied and the acknowledgement is lost ("lost").
Outcomes == {"ok", "down", "lost"}
Applied(o) == o \in {"ok", "lost"}
Raised(o) == o \in {"down", "lost"}

\* The storage call of r takes effect at the database; its outcome is then
\* on its way back to the handler ("settled").
Settle(r, res, doc, posts) ==
  inflight' = (inflight (-) SetToBag({r})) (+)
              SetToBag({[r EXCEPT !.phase = "settled", !.res = res,
                                  !.doc = doc, !.posts = posts]})

Insert(st, d) ==
  [i \in DOMAIN st \cup {d.id} |-> IF i = d.id THEN d ELSE st[i]]
\* (mutant) the document is found and returned but stays.
Remove_Nothing(st, id) == st

Remove(st, id) == [i \in DOMAIN st \ {id} |-> st[i]]

\* ------------------------------------------------ POST /api/posts (l. 35-72)
\* (mutant) only the title is tested.
createRejects_TitleOnly(title, content) == Falsy(title)

\* l. 40: if (!title || !content)
createRejects(title, content) == Falsy(title) \/ Falsy(content)

\* (mutant) the author is passed on as given.
createAuthor_AsGiven(author) == author

\* l. 51: author: author || 'Anonymous'
createAuthor(author) == IF Falsy(author) THEN Anonymous ELSE author

\* l. 48: the _id of a new document is a fresh ObjectId; n is the one the
\* generator hands out, the result the one it hands out next.
newObjectId(n) == n + 1

\* l. 48-52: new Post({...}); a value that does not cast leaves its path
\* unset and records the error that save() raises.
newPost(id, title, content, author, t) ==
  Doc(id,
      IF CastFails(title) THEN Undef ELSE castString(title),
      IF CastFails(content) THEN Undef ELSE castString(content),
      IF CastFails(createAuthor(author)) THEN Undef
      ELSE castString(authorDefault(createAuthor(author))),
      t, t)

\* l. 55: save() validates the document before anything is sent.
saveInvalid(title, content, author, d) ==
  \/ CastFails(title) \/ CastFails(content) \/ CastFails(createAuthor(author))
  \/ ~requiredOk(d.title) \/ ~requiredOk(d.content)

StartPost(b) ==
  /\ listening
  /\ IF createRejects(b.title, b.content)
     THEN /\ last' = Resp("POST", NoId, b, 400, FALSE, NoDoc, <<>>, FALSE)
          /\ UNCHANGED <<boot, now, nextId, store, inflight, hist>>
     ELSE /\ nextId <= MaxPosts
          /\ LET d == newPost(nextId, b.title, b.content, b.author, now) IN
             Suspend(Req("POST", d.id, b, d,
                         saveInvalid(b.title, b.content, b.author, d), 0))
          /\ nextId' = newObjectId(nextId)
          /\ last' = NoResp
          /\ assigned' = assigned \cup {nextId}
          /\ UNCHANGED <<boot, now, store, removed, deletedOk>>

ExecPost(r) ==
  /\ r.op = "POST" /\ r.phase = "sent"
  /\ IF r.err
     THEN /\ Settle(r, "error", r.doc, <<>>)
          /\ UNCHANGED store
     ELSE \E o \in Outcomes :
            /\ store' = IF Applied(o) THEN Insert(store, r.doc) ELSE store
            /\ Settle(r, IF Raised(o) THEN "error" ELSE "ok", r.doc, <<>>)
  /\ last' = NoResp
  /\ UNCHANGED <<boot, now, nextId, hist>>

\* ------------------------------------------------- GET /api/posts (l. 78-88)
RECURSIVE Listings(_)
\* Every order of the documents in S.
Listings(S) ==
  IF S = {} THEN {<<>>}
  ELSE UNION {{<<d>> \o l : l \in Listings(S \ {d})} : d \in S}

\* (mutant) sort({ createdAt: 1 }).
sortedDesc_Ascending(l) ==
  \A i \in 1..(Len(l) - 1) : l[i].createdAt <= l[i + 1].createdAt

\* l. 80: sort({ createdAt: -1 }); the order among equal keys is the server's.
sortedDesc(l) ==
  \A i \in 1..(Len(l) - 1) : l[i].createdAt >= l[i + 1].createdAt

find(st) == {l \in Listings({st[i] : i \in DOMAIN st}) : sortedDesc(l)}

StartGet ==
  /\ listening
  /\ Suspend(Req("GET", NoId, NoBody, NoDoc, FALSE, 0))
  /\ last' = NoResp
  /\ UNCHANGED <<boot, now, nextId, store, hist>>

ExecGet(r) ==
  /\ r.op = "GET" /\ r.phase = "sent"
  /\ \/ \E l \in find(store) : Settle(r, "ok", NoDoc, l)
     \/ Settle(r, "error", NoDoc, <<>>)
  /\ last' = NoResp
  /\ UNCHANGED <<boot, now, nextId, store, hist>>

\* --------------------------------------------- PUT /api/posts/:id (l. 94-127)
\* (mutant) every key is written, an undefined one too.
applySet_Overwrite(old, v) == castString(v)

\* castUpdate: a key whose value is undefined is dropped from $set, so the
\* stored value stays; any other value is cast and written.
applySet(old, v) == IF v.t = "undef" THEN old ELSE castString(v)

\* (mutant) the update validators are off.
requiredFails_Off(v) == FALSE

\* runValidators: true -- the validators of the paths left in $set.
requiredFails(v) == v.t # "undef" /\ ~requiredOk(castString(v))

\* What makes findByIdAndUpdate reject before the update is sent.
updateInvalid(id, title, content, author) ==
  \/ ~ValidObjectId(id)
  \/ CastFails(title) \/ CastFails(content) \/ CastFails(author)
  \/ requiredFails(title) \/ requiredFails(content)

\* (mutant) the update restamps createdAt as well.
updated_Restamp(old, title, content, author, t) ==
  [old EXCEPT !.title = applySet(old.title, title),
              !.content = applySet(old.content, content),
              !.author = applySet(old.author, author),
              !.createdAt = t,
              !.updatedAt = t]

\* The document findByIdAndUpdate leaves in place of old ({ new: true }).
updated(old, title, content, author, t) ==
  [old EXCEPT !.title = applySet(old.title, title),
              !.content = applySet(old.content, content),
              !.author = applySet(old.author, author),
              !.updatedAt = t]

IdInputs == (1..(nextId - 1)) \cup {BadId, GhostId}

StartPut(id, b) ==
  /\ listening
  /\ Suspend(Req("PUT", id, b, NoDoc,
                 updateInvalid(id, b.title, b.content, b.author), now))
  /\ last' = NoResp
  /\ UNCHANGED <<boot, now, nextId, store, hist>>

ExecPut(r) ==
  /\ r.op = "PUT" /\ r.phase = "sent"
  /\ IF r.err
     THEN /\ Settle(r, "error", NoDoc, <<>>)
          /\ UNCHANGED store
     ELSE \E o \in Outcomes :
            LET hit == r.id \in DOMAIN store
                d == IF hit
                     THEN updated(store[r.id], r.body.title, r.body.content,
                                  r.body.author, r.ts)
                     ELSE NoDoc
            IN /\ store' = IF Applied(o) /\ hit THEN Insert(store, d) ELSE store
               /\ Settle(r, IF Raised(o) THEN "error" ELSE "ok",
                         IF Raised(o) THEN NoDoc ELSE d, <<>>)
  /\ last' = NoResp
  /\ UNCHANGED <<boot, now, nextId, hist>>

\* ------------------------------------------ DELETE /api/posts/:id (l. 133-161)
StartDelete(id) ==
  /\ listening
  /\ Suspend(Req("DELETE", id, NoBody, NoDoc, ~ValidObjectId(id), 0))
  /\ last' = NoResp
  /\ UNCHANGED <<boot, now, nextId, store, hist>>

ExecDelete(r) ==
  /\ r.op = "DELETE" /\ r.phase = "sent"
  /\ IF r.err
     THEN /\ Settle(r, "error", NoDoc, <<>>)
          /\ UNCHANGED <<store, removed>>
     ELSE \E o \in Outcomes :
            LET hit == r.id \in DOMAIN store
            IN /\ store' = IF Applied(o) /\ hit THEN Remove(store, r.id) ELSE store
               /\ removed' = IF Applied(o) /\ hit THEN removed \cup {r.id}
                             ELSE removed
               /\ Settle(r, IF Raised(o) THEN "error" ELSE "ok",
                         IF Raised(o) \/ ~hit THEN NoDoc ELSE store[r.id], <<>>)
  /\ last' = NoResp
  /\ UNCHANGED <<boot, now, nextId, assigned, deletedOk>>

\* ------------------------------------------ the code after each await
\* (mutant) the not-found test comes before the failure is looked at.
statusOf_NotFoundFirst(r) ==
  IF r.op \in {"PUT", "DELETE"} /\ r.doc = NoDoc THEN 404
  ELSE IF r.res = "error" THEN 500
  ELSE IF r.op = "POST" THEN 201
  ELSE 200

\* (mutant) the not-found test is missing.
statusOf_NoNotFound(r) ==
  IF r.res = "error" THEN 500
  ELSE IF r.op = "POST" THEN 201
  ELSE 200

\* The status each handler writes once its await has settled.
statusOf(r) ==
  IF r.res = "error" THEN 500                       \* the catch blocks
  ELSE IF r.op = "POST" THEN 201                    \* l. 58
  ELSE IF r.op = "GET" THEN 200                     \* l. 81
  ELSE IF r.doc = NoDoc THEN 404                    \* l. 107-112, 141-146
  ELSE 200                                          \* l. 114, 148

\* The `success` member of the body written with that status.
successOf(r) == statusOf(r) \in {200, 201}

response(r) ==
  Resp(r.op, r.id, r.body, statusOf(r), successOf(r),
       IF successOf(r) /\ r.op # "GET" THEN r.doc ELSE NoDoc,
       IF successOf(r) THEN r.posts ELSE <<>>,
       r.res = "error")

Respond(r) ==
  /\ r.phase = "settled"
  /\ last' = response(r)
  /\ inflight' = inflight (-) SetToBag({r})
  /\ deletedOk' = IF r.op = "DELETE" /\ statusOf(r) = 200
                  THEN deletedOk \cup {r.id} ELSE deletedOk
  /\ UNCHANGED <<boot, now, nextId, store, assigned, removed>>

\* Requests arrive one at a time: a client waits for each response.
Sequential == inflight = EmptyBag

Next ==
  \/ ConnectResolved
  \/ ConnectRejected
  \/ Tick
  \/ \E b \in Bodies : Sequential /\ StartPost(b)
  \/ Sequential /\ StartGet
  \/ \E i \in IdInputs, b \in Bodies : Sequential /\ StartPut(i, b)
  \/ \E i \in IdInputs : Sequential /\ StartDelete(i)
  \/ \E r \in Pending : ExecPost(r)
  \/ \E r \in Pending : ExecGet(r)
  \/ \E r \in Pending : ExecPut(r)
  \/ \E r \in Pending : ExecDelete(r)
  \/ \E r \in Pending : Respond(r)

\* Requests arrive while others are suspended at their await.
NextConc ==
  \/ ConnectResolved
  \/ ConnectRejected
  \/ Tick
  \/ \E b \in ConcBodies : StartPost(b)
  \/ StartGet
  \/ \E i \in IdInputs, b \in ConcBodies : StartPut(i, b)
  \/ \E i \in IdInputs : StartDelete(i)
  \/ \E r \in Pending : ExecPost(r)
  \/ \E r \in Pending : ExecGet(r)
  \/ \E r \in Pending : ExecPut(r)
  \/ \E r \in Pending : ExecDelete(r)
  \/ \E r \in Pending : Respond(r)

Spec == Init /\ [][Next]_vars
SpecConc == Init /\ [][NextConc]_vars

\* ===================================================== steps, as observed
\* The storage call of the suspended request r takes effect in this step,
\* leaving q to be resumed.
Settles(r, q) ==
  /\ r \in Pending /\ r.phase = "sent"
  /\ q \in BagToSet(inflight') /\ q.phase = "settled"
  /\ q.op = r.op /\ q.id = r.id /\ q.body = r.body /\ q.ts = r.ts
  /\ CopiesIn(q, inflight') = CopiesIn(q, inflight) + 1
  /\ CopiesIn(r, inflight') = CopiesIn(r, inflight) - 1

\* The handler of r resumes after its await in this step and runs to its end.
Leaves(r) ==
  /\ r \in Pending /\ r.phase = "settled"
  /\ CopiesIn(r, inflight') = CopiesIn(r, inflight) - 1

\* A handler reaches its await in this step, with request q.
Suspends(q) ==
  /\ q \in BagToSet(inflight') /\ q.phase = "sent"
  /\ CopiesIn(q, inflight') = CopiesIn(q, inflight) + 1

Docs(st) == {st[i] : i \in DOMAIN st}

\* ================================================================ claims

\* C1: a POST /api/posts whose title or content is missing or falsy is
\* answered 400 with success:false, synchronously: no storage call is
\* issued and the stored records are the same before and after.
C1_RejectedCreate ==
  [][ (last'.op = "POST" /\ (Falsy(last'.body.title) \/ Falsy(last'.body.content)))
      => /\ last'.status = 400
         /\ last'.success = FALSE
         /\ last'.doc = NoDoc
         /\ store' = store
         /\ inflight' = inflight
         /\ assigned' = assigned ]_vars

\* C1 witness: a create without content is refused while a record is stored.
C1_Witness ==
  /\ last.op = "POST" /\ last.status = 400
  /\ ~Falsy(last.body.title) /\ Falsy(last.body.content)
  /\ DOMAIN store # {}

\* C2 as stated: a create with title and content present always yields 201
\* with exactly the given title and content.
C2_Original ==
  (last.op = "POST" /\ ~Falsy(last.body.title) /\ ~Falsy(last.body.content))
  => /\ last.status = 201
     /\ last.doc.title = last.body.title
     /\ last.doc.content = last.body.content

\* C2 amended: a create with title and content present is answered 201,
\* unless its storage call raises (a member that does not cast to a string,
\* or a storage failure), and then 500.  The record of a 201 is stored, has
\* an id no earlier document was given, title and content equal to the
\* string form of the given values, and author "Anonymous" when the given
\* author is absent or falsy and the string form of the given author
\* otherwise.
C2_Create ==
  [][ /\ \A q \in BagToSet(inflight') :
           (Suspends(q) /\ q.op = "POST") => q.doc.id \notin assigned
      /\ (last'.op = "POST" /\ ~Falsy(last'.body.title) /\ ~Falsy(last'.body.content))
         => /\ last'.status = IF last'.failed THEN 500 ELSE 201
            /\ last'.success = ~last'.failed
            /\ \A f \in {last'.body.title, last'.body.content, last'.body.author} :
                 f.t = "obj" => last'.failed
            /\ last'.status = 201
               => /\ last'.doc.id \in assigned
                  /\ last'.doc.id \in DOMAIN store'
                  /\ store'[last'.doc.id] = last'.doc
                  /\ last'.doc.title = Str(last'.body.title.s)
                  /\ last'.doc.content = Str(last'.body.content.s)
                  /\ last'.doc.author =
                       IF Falsy(last'.body.author) THEN Str("Anonymous")
                       ELSE Str(last'.body.author.s) ]_vars

\* C2 witness: a 201 for a body without author, the second id handed out.
C2_Witness ==
  /\ last.op = "POST" /\ last.status = 201
  /\ last.body.author = Undef /\ last.doc.author = Str("Anonymous")
  /\ last.doc.id = 2 /\ 1 \in assigned

\* C3: in every reachable state, under any interleaving of creates, updates
\* and deletes, every stored record has a title and a content that are
\* non-empty strings; no PUT, whatever it omits or supplies empty, leaves a
\* stored record without them.
C3_RequiredFieldsStored ==
  \A i \in DOMAIN store :
    /\ store[i].title.t = "str" /\ store[i].title.s # ""
    /\ store[i].content.t = "str" /\ store[i].content.s # ""

\* C3 witness: on one stored record, a PUT with an empty body has been
\* applied while a PUT with an empty title was in flight too.
C3_Witness ==
  \E r, u \in Pending :
    /\ r.op = "PUT" /\ r.phase = "settled" /\ r.res = "ok" /\ r.doc # NoDoc
    /\ r.body.title = Undef /\ r.body.content = Undef
    /\ u.op = "PUT" /\ u.phase = "settled" /\ u.id = r.id
    /\ u.body.title = Str("")
    /\ r.id \in DOMAIN store

\* What a PUT's response is when requests come one at a time, given whether
\* a failed storage call is answered 500 (mayFail) or is not provided for.
PutAnswer(mayFail) ==
  last'.op = "PUT" =>
    IF mayFail /\ last'.failed
    THEN last'.status = 500 /\ last'.success = FALSE
    ELSE IF last'.id \in DOMAIN store'
    THEN /\ last'.status = 200 /\ last'.success = TRUE
         /\ last'.doc = store'[last'.id]
    ELSE ValidObjectId(last'.id)
         => last'.status = 404 /\ last'.success = FALSE /\ last'.doc = NoDoc

\* What the storage call of a PUT may change: nothing but title, content,
\* author and updatedAt of the record with the request's id.
PutFrame(r) ==
  /\ DOMAIN store' = DOMAIN store
  /\ \A i \in DOMAIN store :
       /\ i # r.id => store'[i] = store[i]
       /\ store'[i].id = store[i].id
       /\ store'[i].createdAt = store[i].createdAt

\* C4 as stated: a PUT on an existing id returns 200 with the post-update
\* record, its updatedAt advances, nothing else but title/content/author of
\* that record changes; a PUT on an id matching no record returns 404 and
\* changes nothing.
C4_Original ==
  [][ /\ PutAnswer(FALSE)
      /\ \A r \in Pending, q \in BagToSet(inflight') :
           (Settles(r, q) /\ r.op = "PUT")
           => /\ PutFrame(r)
              /\ r.id \in DOMAIN store
                 => store'[r.id].updatedAt > store[r.id].updatedAt ]_vars

\* C4 amended: a PUT whose storage call raises (malformed id; a supplied
\* title or content that is null, empty or does not cast; an author that
\* does not cast; a storage failure) returns 500.  Otherwise a PUT on an
\* existing id returns 200 with the post-update record and a PUT on an id
\* matching no record returns 404 with success:false.  No PUT changes
\* anything but title, content, author and updatedAt of the record with its
\* id; the other records, the record's id and createdAt and the number of
\* records stay, and a PUT on an id matching no record changes nothing.
\* updatedAt becomes the clock reading taken when the update was issued:
\* with requests issued one at a time it never goes back, and it advances
\* only if the clock has.
C4_Update ==
  [][ /\ PutAnswer(TRUE)
      /\ \A r \in Pending, q \in BagToSet(inflight') :
           (Settles(r, q) /\ r.op = "PUT")
           => /\ PutFrame(r)
              /\ r.id \notin DOMAIN store => store' = store
              /\ (r.id \in DOMAIN store /\ store'[r.id] # store[r.id])
                 => /\ store'[r.id].updatedAt = r.ts
                    /\ store'[r.id].updatedAt >= store[r.id].updatedAt
              /\ (r.id \in DOMAIN store /\ q.res = "ok")
                 => /\ q.doc = store'[r.id]
                    /\ q.doc.updatedAt = r.ts
              /\ (\/ ~ValidObjectId(r.id)
                  \/ r.body.title \in {Null, Str(""), Obj}
                  \/ r.body.content \in {Null, Str(""), Obj}
                  \/ r.body.author = Obj)
                 => q.res = "error" /\ store' = store ]_vars

\* C4 witness: a 200 for an update of one of two stored records, its
\* updatedAt later than its createdAt.
C4_Witness ==
  /\ last.op = "PUT" /\ last.status = 200
  /\ Cardinality(DOMAIN store) = 2
  /\ last.doc.updatedAt > last.doc.createdAt
  /\ last.doc.title # Str("a")

Fields == {"title", "content", "author"}

\* C5 as stated: update is a full replace; after a PUT answered 200 each
\* member the body omits is absent or null on the stored record.
C5_Original ==
  (last.op = "PUT" /\ last.status = 200)
  => \A f \in Fields :
       last.body[f] = Undef => last.doc[f] \in {Undef, Null}

\* C5 amended: update is a partial patch of title, content and author: when
\* the storage call of a PUT on an existing id is applied, each member the
\* body omits keeps its stored value and each member it supplies is
\* overwritten with the string form of the supplied value (null for an
\* author supplied as null); the record returned with the 200 is that
\* record.
C5_PartialPatch ==
  [][ \A r \in Pending, q \in BagToSet(inflight') :
        (Settles(r, q) /\ r.op = "PUT" /\ r.id \in DOMAIN store /\ q.res = "ok")
        => /\ q.doc = store'[r.id]
           /\ \A f \in Fields :
                store'[r.id][f] =
                  IF r.body[f] = Undef THEN store[r.id][f]
                  ELSE IF r.body[f] = Null THEN Null
                  ELSE Str(r.body[f].s) ]_vars

\* C5 witness: a 200 for a body with a title only; the content and the
\* author of the record are the earlier ones.
C5_Witness ==
  /\ last.op = "PUT" /\ last.status = 200
  /\ last.body = Body(Str("b"), Undef, Undef)
  /\ last.doc.title = Str("b")
  /\ last.doc.content = Str("c")
  /\ last.doc.author = Str("Anonymous")

\* What the storage call of a DELETE does, given whether it may raise.
DeleteEffect(r, q, mayFail) ==
  /\ DOMAIN store' \subseteq DOMAIN store
  /\ DOMAIN store \ DOMAIN store' \subseteq {r.id}
  /\ \A i \in DOMAIN store' : store'[i] = store[i]
  /\ r.id \in deletedOk => store' = store
  /\ IF mayFail /\ q.res = "error" THEN q.doc = NoDoc
     ELSE /\ q.res = "ok"
          /\ IF r.id \in DOMAIN store
             THEN q.doc = store[r.id] /\ r.id \notin DOMAIN store'
             ELSE q.doc = NoDoc /\ store' = store

\* What a DELETE's response is, given whether a failed storage call is
\* answered 500 (mayFail) or is not provided for.
DeleteAnswer(mayFail) ==
  last'.op = "DELETE" =>
    IF mayFail /\ last'.failed
    THEN last'.status = 500 /\ last'.success = FALSE
    ELSE /\ last'.status \in {200, 404}
         /\ last'.status = 200
            => /\ last'.success = TRUE
               /\ last'.doc.id = last'.id
               /\ \A r \in Pending : (Leaves(r) /\ r.op = "DELETE") => last'.doc = r.doc
               /\ last'.id \notin DOMAIN store'
               /\ last'.id \notin deletedOk
         /\ last'.status = 404 => last'.success = FALSE /\ last'.doc = NoDoc
         /\ last'.id \in deletedOk => last'.status = 404

GetAnswer(mayFail) ==
  last'.op = "GET" =>
    IF mayFail /\ last'.failed
    THEN last'.status = 500 /\ last'.success = FALSE /\ last'.posts = <<>>
    ELSE /\ last'.status = 200 /\ last'.success = TRUE
         /\ {last'.posts[i] : i \in 1..Len(last'.posts)} = Docs(store')
         /\ Len(last'.posts) = Cardinality(DOMAIN store')
         /\ \A i, j \in 1..Len(last'.posts) :
              i < j => last'.posts[i].createdAt >= last'.posts[j].createdAt

\* C7 as stated: GET /api/posts returns 200 with exactly the stored
\* records, most recently created first, and changes no record.
C7_Original ==
  [][ /\ GetAnswer(FALSE)
      /\ \A r \in Pending, q \in BagToSet(inflight') :
           (Settles(r, q) /\ r.op = "GET") => store' = store ]_vars

\* C7 amended: GET /api/posts returns 200 with exactly the stored records,
\* each once, ordered by createdAt non-increasing (the empty list when none
\* is stored), unless its storage call raises, and then it returns 500 with
\* success:false and no list; it changes no stored record.
C7_List ==
  [][ /\ GetAnswer(TRUE)
      /\ \A r \in Pending, q \in BagToSet(inflight') :
           (Settles(r, q) /\ r.op = "GET") => store' = store ]_vars

\* C7 witness: a listing of two records created at different times.
C7_Witness ==
  /\ last.op = "GET" /\ last.status = 200
  /\ Len(last.posts) = 2
  /\ last.posts[1].createdAt > last.posts[2].createdAt
  /\ last.posts[1].id > last.posts[2].id

\* C8: in each of the four handlers a failure raised by the storage call
\* ends in exactly one response, 500 with success:false, written by the
\* handler itself; a malformed id on PUT or DELETE is such a failure and is
\* never answered 404.
C8_FailuresAnswered500 ==
  [][ /\ \A r \in Pending :
           Leaves(r) => /\ last'.op = r.op /\ last'.id = r.id
                        /\ last'.body = r.body
                        /\ last'.failed = (r.res = "error")
      /\ \A r \in Pending :
           (Leaves(r) /\ r.res = "error")
           => /\ last'.status = 500 /\ last'.success = FALSE
              /\ last'.doc = NoDoc /\ last'.posts = <<>>
      /\ \A r \in Pending, q \in BagToSet(inflight') :
           (Settles(r, q) /\ r.op \in {"PUT", "DELETE"} /\ r.id = BadId)
           => q.res = "error" /\ store' = store
      /\ (last'.op \in {"PUT", "DELETE"} /\ last'.id = BadId)
         => last'.status = 500 ]_vars

\* C8 witness: a PUT with a malformed id has been answered 500.
C8_Witness ==
  /\ last.op = "PUT" /\ last.id = BadId
  /\ last.status = 500 /\ last.failed
  /\ DOMAIN store # {}

\* C9: the process listens only after mongoose.connect has resolved; when
\* the connection attempt fails it never listens, never serves a request
\* and never connects a second time.
C9_ListenAfterConnect ==
  [][ /\ listening' => conn' = "up"
      /\ (listening' /\ ~listening) => conn = "pending"
      /\ connects' = 1
      /\ conn = "failed" => conn' = "failed"
      /\ ~listening' => /\ inflight' = EmptyBag /\ last' = NoResp
                        /\ DOMAIN store' = {} /\ assigned' = {} ]_vars

\* C9 witness: the connection attempt has failed and time has passed.
C9_Witness ==
  /\ conn = "failed" /\ ~listening
  /\ now > 0

\* C10 as stated: once a DELETE for an id has been answered 200, no PUT or
\* DELETE for that id answered later is answered 200, and no listing
\* answered later contains the id.
C10_Original ==
  [][ /\ (last'.op \in {"PUT", "DELETE"} /\ last'.status = 200)
         => last'.id \notin deletedOk
      /\ (last'.op = "GET" /\ last'.status = 200)
         => \A i \in 1..Len(last'.posts) : last'.posts[i].id \notin deletedOk ]_vars

\* C10 amended: under any interleaving, for each id at most one DELETE is
\* ever answered 200; once the storage call of a DELETE has removed the
\* record of an id, every PUT or DELETE for that id whose storage call
\* takes effect later finds no record, changes nothing and is not answered
\* 200, and no listing read later contains the id (a PUT or a listing whose
\* storage call took effect before the removal may still be answered 200
\* after the DELETE is); ids are never reused by create and a PUT never
\* creates a record.
C10_IdentifiesOneRecord ==
  [][ /\ (last'.op = "DELETE" /\ last'.status = 200) => last'.id \notin deletedOk
      /\ \A r \in Pending, q \in BagToSet(inflight') :
           Settles(r, q)
           => /\ (r.op \in {"PUT", "DELETE"} /\ r.id \in removed)
                 => q.doc = NoDoc /\ store' = store
              /\ r.op = "GET"
                 => \A i \in 1..Len(q.posts) : q.posts[i].id \notin removed
              /\ r.op = "PUT" => DOMAIN store' = DOMAIN store
      /\ \A r \in Pending :
           (Leaves(r) /\ r.op \in {"PUT", "DELETE"} /\ r.doc = NoDoc)
           => last'.status # 200
      /\ removed' \cap DOMAIN store' = {}
      /\ \A q \in BagToSet(inflight') :
           (Suspends(q) /\ q.op = "POST")
           => q.doc.id \notin (assigned \cup removed \cup DOMAIN store) ]_vars

\* C10 witness: a DELETE of an id has been answered 200; a second DELETE of
\* it is answered 404 while a PUT for it, applied after the removal, has
\* found no record.
C10_Witness ==
  /\ last.op = "DELETE" /\ last.status = 404 /\ last.id \in deletedOk
  /\ \E r \in Pending :
       /\ r.op = "PUT" /\ r.id = last.id /\ r.phase = "settled"
       /\ r.res = "ok" /\ r.doc = NoDoc
====
